---- MODULE Spec2Model ----
(***************************************************************************)
(* GaussianModel of src/model/render/gaussian_utils.py: the raw per-       *)
(* primitive fields, the activation policy, the accessors, and the PLY     *)
(* codec (save_ply, save_ply_vis, load_ply).                               *)
(*                                                                         *)
(* A tensor is a record [shape, flat, ops]: integer entries in row-major   *)
(* order under a chain ops of real functions applied to the whole tensor,  *)
(* left to right (exp, log, sigmoid, softplus, ...).  Arithmetic is exact: *)
(* the only identities used are log(exp(x)) = x and exp(log(y)) = y.       *)
(* A scene file keeps one such chain per column.                           *)
(***************************************************************************)
EXTENDS Integers, Sequences, FiniteSets, TLC

\* Number of primitives in a set_data call.
MaxN == 2
\* Longest chain save -> load -> save ... a value travels through.
MaxGen == 1

Degrees == 0 .. 4
Policies == {"exp", "softplus", "sigmoid"}

---------------------------------------------------------------------------
\* Numbers

RECURSIVE Pow2(_)
Pow2(n) == IF n <= 0 THEN 1 ELSE 2 * Pow2(n - 1)

RECURSIVE Log2Floor(_)
Log2Floor(v) == IF v < 2 THEN 0 ELSE 1 + Log2Floor(v \div 2)

\* IEEE binary16 of an integer: 11 significant bits, round to nearest even.
RoundHalf(v) ==
    LET mag == IF v < 0 THEN 0 - v ELSE v
        e == Log2Floor(mag)
        u == IF e > 10 THEN Pow2(e - 10) ELSE 1
        q == mag \div u
        r == mag % u
        up == (2 * r > u) \/ (2 * r = u /\ q % 2 = 1)
        res == IF up THEN (q + 1) * u ELSE q * u
    IN IF v < 0 THEN 0 - res ELSE res

\* A chain of functions extended by one more: torch.exp/log/sigmoid/softplus
\* or a fixed map.
Then(ops, op) ==
    IF /\ ops # <<>>
       /\ \/ (op = "exp" /\ ops[Len(ops)] = "log")
          \/ (op = "log" /\ ops[Len(ops)] = "exp")
    THEN SubSeq(ops, 1, Len(ops) - 1)
    ELSE Append(ops, op)

\* numpy's cast of a float32 value on assignment into a field of type ty:
\* the number, and the chain over it.
CastNum(ty, ops, v) == IF ty = "f2" /\ ops = <<>> THEN RoundHalf(v) ELSE v
CastOps(ty, ops) ==
    IF ty = "f2" /\ ops # <<>> /\ ops[Len(ops)] # "f16" THEN Append(ops, "f16")
    ELSE ops

---------------------------------------------------------------------------
\* Tensors

Tensor2(n, w, ops, F(_, _)) ==
    [shape |-> <<n, w>>,
     flat |-> [i \in 1 .. n * w |-> F((i - 1) \div w, (i - 1) % w)],
     ops |-> ops]

Tensor3(n, a, b, ops, F(_, _, _)) ==
    [shape |-> <<n, a, b>>,
     flat |-> [i \in 1 .. n * a * b |->
                 F((i - 1) \div (a * b), ((i - 1) \div b) % a, (i - 1) % b)],
     ops |-> ops]

At2(t, p, j) == t.flat[p * t.shape[2] + j + 1]
At3(t, p, i, j) == t.flat[(p * t.shape[2] + i) * t.shape[3] + j + 1]

Ndim(t) == Len(t.shape)

\* torch.empty(0): one dimension, of size 0.
Empty0 == [shape |-> <<0>>, flat |-> <<>>, ops |-> <<>>]
\* Python's None in a tensor field.
None == [shape |-> <<>>, flat |-> <<>>, ops |-> <<"None">>]

\* An elementwise (or row-wise) function of a tensor.
ApplyT(op, t) == [t EXCEPT !.ops = Then(@, op)]

\* t.transpose(1, 2).flatten(start_dim=1) of an (N, A, B) tensor: (N, B*A).
TransposeFlatten(t) ==
    [shape |-> <<t.shape[1], t.shape[3] * t.shape[2]>>,
     flat |-> [i \in 1 .. Len(t.flat) |->
                 LET a == t.shape[2]
                     w == t.shape[3] * a
                     p == (i - 1) \div w
                     j == (i - 1) % w
                 IN At3(t, p, j % a, j \div a)],
     ops |-> t.ops]

\* features[:, 1:, :]
SliceRest(t) ==
    Tensor3(t.shape[1], t.shape[2] - 1, t.shape[3], t.ops,
            LAMBDA p, k, c : At3(t, p, k + 1, c))

\* torch.cat((x, y), dim=1) of two 3-d tensors
Cat1(x, y) ==
    Tensor3(x.shape[1], x.shape[2] + y.shape[2], x.shape[3], x.ops,
            LAMBDA p, k, c : IF k < x.shape[2] THEN At3(x, p, k, c)
                             ELSE At3(y, p, k - x.shape[2], c))

CanCat1(x, y) ==
    /\ Ndim(x) = 3 /\ Ndim(y) = 3
    /\ x.shape[1] = y.shape[1] /\ x.shape[3] = y.shape[3]

\* Row p (from 0) of a 2-d tensor, as a sequence.
Row(t, p) == SubSeq(t.flat, p * t.shape[2] + 1, (p + 1) * t.shape[2])

---------------------------------------------------------------------------
\* The model object

VARIABLES
    model,      \* the GaussianModel: sh_degree, policy, raw fields
    file,       \* the scene file at the path, or NoFile
    ctor,       \* history: the arguments of the constructor of `model`
    lastSet,    \* history: the call that last set the raw fields, and the fields
    saved,      \* history: who wrote `file`: the model and the arguments
    lastCall,   \* history: "get", "load_ply raised", or "other" for any other call
    sh_call     \* the last eval_sh call: its arguments and its outcome, or NoCall

vars == <<model, file, ctor, lastSet, saved, lastCall, sh_call>>

NCoef(deg) == (deg + 1) * (deg + 1)

RawFields(mdl) ==
    [xyz |-> mdl.xyz, features_dc |-> mdl.features_dc,
     features_rest |-> mdl.features_rest, scaling |-> mdl.scaling,
     rotation |-> mdl.rotation, opacity |-> mdl.opacity]

\* Variant of NewModel: _features_rest is an empty tensor at every degree.
NewModelRestAlways(deg, pol) ==
    [sh_degree |-> deg,
     scaling_activation_type |-> pol,
     xyz |-> Empty0,
     features_dc |-> Empty0,
     features_rest |-> Empty0,
     scaling |-> Empty0,
     rotation |-> Empty0,
     opacity |-> Empty0]

\* GaussianModel.__init__ with setup_functions
NewModel(deg, pol) ==
    [sh_degree |-> deg,
     scaling_activation_type |-> pol,
     xyz |-> Empty0,
     features_dc |-> Empty0,
     features_rest |-> IF deg > 0 THEN Empty0 ELSE None,
     scaling |-> Empty0,
     rotation |-> Empty0,
     opacity |-> Empty0]

NoFile == [exists |-> FALSE, names |-> <<>>, types |-> <<>>, ops |-> <<>>, rows |-> <<>>]
NoSave == [by |-> "nobody", gen |-> 0]
\* No eval_sh call made.
NoCall == [made |-> FALSE]

Init ==
    /\ \E deg \in Degrees, pol \in Policies :
          /\ model = NewModel(deg, pol)
          /\ ctor = [sh_degree |-> deg, scaling_activation_type |-> pol]
    /\ file = NoFile
    /\ lastSet = [by |-> "init", gen |-> 0, fields |-> RawFields(model), src |-> NoSave]
    /\ saved = NoSave
    /\ lastCall = "other"
    /\ sh_call = NoCall

\* A new GaussianModel replaces the one at hand.  Every model of a run is
\* constructed with the same activation policy.
Construct(deg) ==
    /\ model' = NewModel(deg, ctor.scaling_activation_type)
    /\ ctor' = [ctor EXCEPT !.sh_degree = deg]
    /\ lastSet' = [by |-> "init", gen |-> 0, fields |-> RawFields(model'), src |-> NoSave]
    /\ lastCall' = "other"
    /\ UNCHANGED <<file, saved, sh_call>>

---------------------------------------------------------------------------
\* set_data and to

\* The caller's tensors: n primitives, every entry a different number
\* (s + 1000 * primitive + place).
InXyz(n, s) == Tensor2(n, 3, <<>>, LAMBDA p, j : s + 1000 * p + 1 + j)
InOpacity(n, s) == Tensor2(n, 1, <<>>, LAMBDA p, j : s + 1000 * p + 5)
InScaling(n, s) == Tensor2(n, 3, <<>>, LAMBDA p, j : s + 1000 * p + 6 + j)
InRotation(n, s) == Tensor2(n, 4, <<>>, LAMBDA p, j : s + 1000 * p + 10 + j)
FeatureVal(s, p, k, c) == s + 1000 * p + 100 + 3 * k + c
\* (N, K, 3) with K = (deg+1)^2 for an SH model; (N, 3) for a degree-0 model.
InFeatures(deg, n, s) ==
    IF deg > 0
    THEN Tensor3(n, NCoef(deg), 3, <<>>, LAMBDA p, k, c : FeatureVal(s, p, k, c))
    ELSE Tensor2(n, 3, <<>>, LAMBDA p, c : FeatureVal(s, p, 0, c))

set_data(mdl, xyz, features, scaling, rotation, opacity) ==
    [mdl EXCEPT
        !.xyz = xyz,
        !.features_dc = features,
        !.features_rest = IF mdl.sh_degree > 0 THEN SliceRest(features) ELSE None,
        !.scaling = scaling,
        !.rotation = rotation,
        !.opacity = opacity]

SetData(n) ==
    /\ model' = set_data(model, InXyz(n, 0), InFeatures(model.sh_degree, n, 0),
                         InScaling(n, 0), InRotation(n, 0), InOpacity(n, 0))
    /\ lastSet' = [by |-> "set_data", gen |-> 0, fields |-> RawFields(model'),
                   src |-> NoSave]
    /\ lastCall' = "other"
    /\ UNCHANGED <<file, ctor, saved, sh_call>>

\* Tensor.to(device): the same shape and entries on another device; the
\* model keeps no device.
ToDevice(t) == t

to(mdl) ==
    [mdl EXCEPT
        !.xyz = ToDevice(@),
        !.features_dc = ToDevice(@),
        !.features_rest = IF mdl.sh_degree > 0 THEN ToDevice(@) ELSE @,
        !.scaling = ToDevice(@),
        !.rotation = ToDevice(@),
        !.opacity = ToDevice(@)]

To ==
    /\ model' = to(model)
    /\ lastCall' = "other"
    /\ UNCHANGED <<file, ctor, lastSet, saved, sh_call>>

---------------------------------------------------------------------------
\* Activations and accessors

\* Variant of ScalingActivated: every policy decodes as exp does.
ScalingActivatedExp(pol, t) == ApplyT("exp", t)

\* Variant of ScaleForFile: the raw scale goes to the file under every policy.
ScaleForFileRaw(pol, t) == t

\* What get_scaling computes from the raw scale, by scaling_activation_type.
ScalingActivated(pol, t) ==
    IF pol = "exp" THEN ApplyT("exp", t)
    ELSE IF pol = "softplus" THEN ApplyT("mul_scale_multi_act", ApplyT("softplus", t))
    ELSE ApplyT("affine_scale_min_max_act", ApplyT("sigmoid", t))

\* The scale save_ply and save_ply_vis hand to the writer.
ScaleForFile(pol, t) ==
    IF pol = "exp" THEN t
    ELSE IF pol = "softplus"
    THEN ApplyT("log", ApplyT("mul_scale_multi_act", ApplyT("softplus", t)))
    ELSE ApplyT("log", ApplyT("affine_scale_min_max_act", ApplyT("sigmoid", t)))

Failed == [ok |-> FALSE]

get_scaling(mdl) ==
    [ok |-> TRUE, val |-> ScalingActivated(mdl.scaling_activation_type, mdl.scaling)]

\* torch.nn.functional.normalize, over dim 1
get_rotation(mdl) ==
    IF Ndim(mdl.rotation) < 2 THEN Failed
    ELSE [ok |-> TRUE, val |-> ApplyT("normalize", mdl.rotation)]

get_xyz(mdl) == [ok |-> TRUE, val |-> mdl.xyz]

get_features(mdl) ==
    IF mdl.sh_degree > 0
    THEN IF CanCat1(mdl.features_dc, mdl.features_rest)
         THEN [ok |-> TRUE, val |-> Cat1(mdl.features_dc, mdl.features_rest)]
         ELSE Failed
    ELSE [ok |-> TRUE, val |-> ApplyT("sigmoid", mdl.features_dc)]

get_opacity(mdl) == [ok |-> TRUE, val |-> ApplyT("sigmoid", mdl.opacity)]

\* build_covariance_from_scaling_rotation(get_scaling, modifier, _rotation):
\* a function of the modifier, the decoded scale and the raw quaternions
\* (build_rotation normalizes a copy).
get_covariance(mdl, scaling_modifier) ==
    IF \/ Ndim(mdl.scaling) < 2 \/ Ndim(mdl.rotation) < 2
       \/ mdl.scaling.shape[2] < 3 \/ mdl.rotation.shape[2] < 4
       \/ mdl.scaling.shape[1] # mdl.rotation.shape[1]
    THEN Failed
    ELSE [ok |-> TRUE,
          val |-> [scaling_modifier |-> scaling_modifier,
                   scaling |-> get_scaling(mdl).val,
                   rotation |-> mdl.rotation]]

Accessors ==
    {"get_scaling", "get_rotation", "get_xyz", "get_features", "get_opacity",
     "get_covariance"}

Access(mdl, acc) ==
    CASE acc = "get_scaling" -> get_scaling(mdl)
      [] acc = "get_rotation" -> get_rotation(mdl)
      [] acc = "get_xyz" -> get_xyz(mdl)
      [] acc = "get_features" -> get_features(mdl)
      [] acc = "get_opacity" -> get_opacity(mdl)
      [] OTHER -> get_covariance(mdl, 1)

\* Variant of AfterAccess: get_rotation normalizes the stored quaternions.
AfterAccessNormalizing(mdl, acc) ==
    IF acc = "get_rotation" /\ Ndim(mdl.rotation) >= 2
    THEN [mdl EXCEPT !.rotation = ApplyT("normalize", @)]
    ELSE mdl

\* What reading an accessor leaves in the object: no field is assigned.
AfterAccess(mdl, acc) == mdl

Get(acc) ==
    /\ model' = AfterAccess(model, acc)
    /\ lastCall' = "get"
    /\ UNCHANGED <<file, ctor, lastSet, saved, sh_call>>

---------------------------------------------------------------------------
\* The scene file: construct_dtypes and save_ply

Field(g, i, ty) == [name |-> [g |-> g, i |-> i], ty |-> ty]
Fields(g, n, ty) == [k \in 1 .. n |-> Field(g, k - 1, ty)]
Times(n, v) == [k \in 1 .. n |-> v]

\* SH-rest capacity of the viewer layout: ((3 + 1) ** 2 - 1) * 3
ViewerRest == (NCoef(3) - 1) * 3

\* The list l of (name, type) pairs, or the failure of the assertion or of a
\* shape[...] lookup.  nf is the number of fields of each group: x y z,
\* red green blue, f_dc, f_rest, opacity, scale, rot.
construct_dtypes(mdl, use_fp16, enable_gs_viewer) ==
    LET deg == mdl.sh_degree
        dc == mdl.features_dc
        rest == mdl.features_rest
        fl == IF use_fp16 THEN "f2" ELSE "f4"
        dcOk == IF use_fp16 \/ deg > 0 THEN Ndim(dc) >= 3 ELSE Ndim(dc) >= 2
        ndc == IF use_fp16 \/ deg > 0 THEN dc.shape[2] * dc.shape[3] ELSE dc.shape[2]
        padded == ~use_fp16 /\ enable_gs_viewer
        degOk == padded => deg <= 3
        restOk == (deg > 0 /\ ~padded) => Ndim(rest) >= 3
        nrest == IF deg = 0 THEN 0
                 ELSE IF padded THEN ViewerRest
                 ELSE rest.shape[2] * rest.shape[3]
        tailOk == Ndim(mdl.scaling) >= 2 /\ Ndim(mdl.rotation) >= 2
    IN IF ~(dcOk /\ degOk /\ restOk /\ tailOk) THEN Failed
       ELSE [ok |-> TRUE,
             nf |-> <<3, 3, ndc, nrest, 1, mdl.scaling.shape[2], mdl.rotation.shape[2]>>,
             l |-> <<Field("x", -1, fl), Field("y", -1, fl), Field("z", -1, fl),
                     Field("red", -1, "u1"), Field("green", -1, "u1"),
                     Field("blue", -1, "u1")>>
                   \o Fields("f_dc", ndc, fl)
                   \o Fields("f_rest", nrest, fl)
                   \o <<Field("opacity", -1, fl)>>
                   \o Fields("scale", mdl.scaling.shape[2], fl)
                   \o Fields("rot", mdl.rotation.shape[2], fl)]

\* (SH2RGB(f_dc) * 255.0).clip(0.0, 255.0).astype(np.uint8)
RgbOfDc(f_dc) == ApplyT("sh2rgb_u8", f_dc)

\* matplotlib's viridis at np.linspace(0, 1, n), channels 0..2, as uint8:
\* a function of the sample points, kept as the numbers 100 * n + p.
RgbOfIndex(n) == Tensor2(n, 3, <<"viridis_u8">>, LAMBDA p, j : 100 * n + p)

\* Variant of PadRest: each channel's coefficients padded to 15 in place.
PadRestByChannel(f_rest, n) ==
    Tensor2(n, ViewerRest, f_rest.ops,
            LAMBDA p, j :
                LET k1 == f_rest.shape[2] \div 3
                    cap == ViewerRest \div 3
                IN IF (j % cap) < k1 THEN At2(f_rest, p, (j \div cap) * k1 + (j % cap))
                   ELSE 0)

\* f_rest_pad[:, : f_rest.shape[1]] = f_rest over np.zeros((n, 45))
PadRest(f_rest, n) ==
    Tensor2(n, ViewerRest, f_rest.ops,
            LAMBDA p, j : IF j < f_rest.shape[2] THEN At2(f_rest, p, j) ELSE 0)

\* Lines 471-527 of save_ply: the arrays, in the order of their concatenation
\* along axis 1: xyz, rgb, f_dc, [f_rest,] opacities, scale, rotation.
SaveParts(mdl, enable_gs_viewer, color_code) ==
    LET deg == mdl.sh_degree
        xyz == mdl.xyz
        f_dc == IF deg > 0 THEN TransposeFlatten(mdl.features_dc) ELSE mdl.features_dc
        rgb == IF color_code THEN RgbOfIndex(xyz.shape[1]) ELSE RgbOfDc(f_dc)
        scale == ScaleForFile(mdl.scaling_activation_type, mdl.scaling)
        f_rest0 == IF deg > 0 THEN TransposeFlatten(mdl.features_rest) ELSE None
        f_rest == IF enable_gs_viewer /\ deg > 0 /\ f_rest0.shape[2] < ViewerRest
                  THEN PadRest(f_rest0, xyz.shape[1])
                  ELSE f_rest0
    IN IF f_rest # None
       THEN <<xyz, rgb, f_dc, f_rest, mdl.opacity, scale, mdl.rotation>>
       ELSE <<xyz, rgb, f_dc, mdl.opacity, scale, mdl.rotation>>

\* Whether lines 471-527 run through: transpose(1, 2) needs three dimensions,
\* the padding and np.concatenate need 2-d arrays of the same length.
SavePartsOk(mdl, enable_gs_viewer, color_code) ==
    /\ mdl.sh_degree > 0 =>
          /\ Ndim(mdl.features_dc) = 3 /\ Ndim(mdl.features_rest) = 3
          /\ Ndim(mdl.xyz) = 2 /\ mdl.features_rest.shape[1] = mdl.xyz.shape[1]
    /\ LET parts == SaveParts(mdl, enable_gs_viewer, color_code)
       IN \A i \in 1 .. Len(parts) :
             Ndim(parts[i]) = 2 /\ parts[i].shape[1] = mdl.xyz.shape[1]

RECURSIVE ConcatRows(_, _, _)
ConcatRows(parts, p, i) ==
    IF i > Len(parts) THEN <<>>
    ELSE Row(parts[i], p) \o ConcatRows(parts, p, i + 1)

RECURSIVE ConcatOps(_, _)
ConcatOps(parts, i) ==
    IF i > Len(parts) THEN <<>>
    ELSE Times(parts[i].shape[2], parts[i].ops) \o ConcatOps(parts, i + 1)

\* attributes = np.concatenate(parts, axis=1): the rows, the chain over each
\* column, and the number of columns of each array.
Attributes(parts) ==
    [rows |-> [p \in 1 .. parts[1].shape[1] |-> ConcatRows(parts, p - 1, 1)],
     ops |-> ConcatOps(parts, 1),
     w |-> [i \in 1 .. Len(parts) |-> parts[i].shape[2]]]

\* elements[:] = list(map(tuple, attributes)), PlyElement.describe and write.
\* writer_f2 says whether the PLY writer at hand takes 16-bit float fields.
WriteElements(l, at, writer_f2) ==
    IF \E p \in 1 .. Len(at.rows) : Len(at.rows[p]) # Len(l) THEN Failed
    ELSE IF ~writer_f2 /\ \E j \in 1 .. Len(l) : l[j].ty = "f2" THEN Failed
    ELSE [ok |-> TRUE,
          file |-> [exists |-> TRUE,
                    names |-> [j \in 1 .. Len(l) |-> l[j].name],
                    types |-> [j \in 1 .. Len(l) |-> l[j].ty],
                    ops |-> [j \in 1 .. Len(l) |-> CastOps(l[j].ty, at.ops[j])],
                    rows |-> [p \in 1 .. Len(at.rows) |->
                                [j \in 1 .. Len(l) |->
                                    CastNum(l[j].ty, at.ops[j], at.rows[p][j])]]]]

save_ply(mdl, use_fp16, enable_gs_viewer, color_code, writer_f2) ==
    IF mdl.sh_degree > 0 /\ Ndim(mdl.features_dc) # 3 THEN Failed
    ELSE IF ~construct_dtypes(mdl, use_fp16, enable_gs_viewer).ok THEN Failed
    ELSE IF ~SavePartsOk(mdl, enable_gs_viewer, color_code) THEN Failed
    ELSE WriteElements(construct_dtypes(mdl, use_fp16, enable_gs_viewer).l,
                       Attributes(SaveParts(mdl, enable_gs_viewer, color_code)),
                       writer_f2)

SavePly(use_fp16, enable_gs_viewer, color_code, writer_f2) ==
    LET out == save_ply(model, use_fp16, enable_gs_viewer, color_code, writer_f2)
    IN /\ lastSet.gen < MaxGen
       /\ use_fp16 \/ writer_f2
       /\ file' = IF out.ok THEN out.file ELSE file
       /\ saved' = IF out.ok
                   THEN [by |-> "save_ply", gen |-> lastSet.gen + 1, model |-> model,
                         use_fp16 |-> use_fp16, enable_gs_viewer |-> enable_gs_viewer,
                         color_code |-> color_code]
                   ELSE saved
       /\ lastCall' = "other"
       /\ UNCHANGED <<model, ctor, lastSet, sh_call>>

---------------------------------------------------------------------------
\* save_ply_vis

\* Variant of FlipYZ: the transposed rotation, (x, y, z) becomes (x, z, -y).
FlipYZTransposed(xyz) ==
    Tensor2(xyz.shape[1], 3, xyz.ops,
            LAMBDA p, j : IF j = 0 THEN At2(xyz, p, 0)
                          ELSE IF j = 1 THEN At2(xyz, p, 2)
                          ELSE 0 - At2(xyz, p, 1))

\* xyzs @ flip_yz_rot_mat.T: every row (x, y, z) becomes (x, -z, y)
FlipYZ(xyz) ==
    Tensor2(xyz.shape[1], 3, xyz.ops,
            LAMBDA p, j : IF j = 0 THEN At2(xyz, p, 0)
                          ELSE IF j = 1 THEN 0 - At2(xyz, p, 2)
                          ELSE At2(xyz, p, 1))

\* The quaternions of flip_yz_rot_mat @ R.from_quat(q[:, [1,2,3,0]]).as_matrix(),
\* back in (w, x, y, z) order: a row-wise function of the raw quaternions.
FlipQuat(q) == ApplyT("flip_yz_rot_mat", q)

save_ply_vis(mdl) ==
    LET xyz == mdl.xyz
        f_dc == mdl.features_dc
        scale == ScaleForFile(mdl.scaling_activation_type, mdl.scaling)
    IN IF Ndim(xyz) # 2 \/ xyz.shape[2] # 3 THEN Failed
       ELSE IF Ndim(mdl.rotation) # 2 \/ mdl.rotation.shape[2] # 4 THEN Failed
       ELSE IF \E t \in {f_dc, mdl.opacity, scale, mdl.rotation} :
                  Ndim(t) # 2 \/ t.shape[1] # xyz.shape[1]
       THEN Failed
       ELSE WriteElements(
                <<Field("x", -1, "f4"), Field("y", -1, "f4"), Field("z", -1, "f4")>>
                \o Fields("f_dc", f_dc.shape[2], "f4")
                \o <<Field("opacity", -1, "f4")>>
                \o Fields("scale", scale.shape[2], "f4")
                \o Fields("rot", 4, "f4"),
                Attributes(<<FlipYZ(xyz), f_dc, mdl.opacity, scale,
                             FlipQuat(mdl.rotation)>>),
                TRUE)

SavePlyVis ==
    LET out == save_ply_vis(model)
    IN /\ lastSet.gen < MaxGen
       /\ file' = IF out.ok THEN out.file ELSE file
       /\ saved' = IF out.ok
                   THEN [by |-> "save_ply_vis", gen |-> lastSet.gen + 1, model |-> model]
                   ELSE saved
       /\ lastCall' = "other"
       /\ UNCHANGED <<model, ctor, lastSet, sh_call>>

---------------------------------------------------------------------------
\* load_ply

\* The columns whose property name starts with the prefix of group g.
Columns(f, g) == {j \in 1 .. Len(f.names) : f.names[j].g = g}

HasField(f, g, i) == \E j \in 1 .. Len(f.names) : f.names[j] = [g |-> g, i |-> i]
ColumnOf(f, g, i) == CHOOSE j \in 1 .. Len(f.names) : f.names[j] = [g |-> g, i |-> i]

\* sorted(names, key=lambda x: int(x.split("_")[-1])), as column numbers
RECURSIVE SortBySuffix(_, _)
SortBySuffix(f, cols) ==
    IF cols = {} THEN <<>>
    ELSE LET c == CHOOSE x \in cols : \A y \in cols : f.names[x].i <= f.names[y].i
         IN <<c>> \o SortBySuffix(f, cols \ {c})

\* np.stack of the named columns, axis=1: an (N, len(cols)) array.
Stack(f, cols) ==
    [shape |-> <<Len(f.rows), Len(cols)>>,
     flat |-> [i \in 1 .. Len(f.rows) * Len(cols) |->
                 f.rows[((i - 1) \div Len(cols)) + 1][cols[((i - 1) % Len(cols)) + 1]]],
     ops |-> IF cols = <<>> THEN <<>> ELSE f.ops[cols[1]]]

\* The columns of group g of a file, in suffix order, as an (N, columns) tensor.
FileTensor(f, g) == Stack(f, SortBySuffix(f, Columns(f, g)))

\* (N, C): the same entries as an (N, 1, C) tensor
Unsqueeze1(t) == [t EXCEPT !.shape = <<t.shape[1], 1, t.shape[2]>>]

\* x.reshape((N, 3, k1)).transpose(1, 2) of an (N, 3 * k1) array: (N, k1, 3)
ReshapeTranspose(x, k1) ==
    Tensor3(x.shape[1], k1, 3, x.ops, LAMBDA p, k, c : At2(x, p, c * k1 + k))

\* Lines 533-581: every read of the file finds its property and the count
\* assertion passes.
LoadReadsOk(mdl, f) ==
    /\ f.exists
    /\ HasField(f, "x", -1) /\ HasField(f, "y", -1) /\ HasField(f, "z", -1)
    /\ HasField(f, "opacity", -1)
    /\ \A c \in 0 .. 2 : HasField(f, "f_dc", c)
    /\ mdl.sh_degree > 0 =>
          Cardinality(Columns(f, "f_rest")) = 3 * NCoef(mdl.sh_degree) - 3

LoadXyz(f) ==
    Stack(f, <<ColumnOf(f, "x", -1), ColumnOf(f, "y", -1), ColumnOf(f, "z", -1)>>)

\* Lines 583-599: the assignments that end load_ply.
LoadAssign(mdl, f) ==
    [mdl EXCEPT
        !.xyz = LoadXyz(f),
        !.features_dc =
            Unsqueeze1(Stack(f, [c \in 1 .. 3 |-> ColumnOf(f, "f_dc", c - 1)])),
        !.features_rest =
            IF mdl.sh_degree > 0
            THEN ReshapeTranspose(FileTensor(f, "f_rest"), NCoef(mdl.sh_degree) - 1)
            ELSE @,
        !.opacity = Stack(f, <<ColumnOf(f, "opacity", -1)>>),
        !.scaling = FileTensor(f, "scale"),
        !.rotation = FileTensor(f, "rot")]

\* Variant of load_ply: the position is assigned as soon as it is read.
load_ply_xyz_at_once(mdl, f) ==
    IF LoadReadsOk(mdl, f) THEN [ok |-> TRUE, model |-> LoadAssign(mdl, f)]
    ELSE IF /\ f.exists
            /\ HasField(f, "x", -1) /\ HasField(f, "y", -1) /\ HasField(f, "z", -1)
    THEN [ok |-> FALSE, model |-> [mdl EXCEPT !.xyz = LoadXyz(f)]]
    ELSE [ok |-> FALSE, model |-> mdl]

\* Whether the call returns, and the object as it leaves it: after the
\* assignments that end the method, or as the read or the assertion that
\* raised before them left it.
load_ply(mdl, f) ==
    IF LoadReadsOk(mdl, f) THEN [ok |-> TRUE, model |-> LoadAssign(mdl, f)]
    ELSE [ok |-> FALSE, model |-> mdl]

LoadPly ==
    LET out == load_ply(model, file)
    IN /\ model' = out.model
       /\ lastSet' = IF out.ok
                     THEN [by |-> "load_ply", gen |-> saved.gen,
                           fields |-> RawFields(out.model), src |-> saved]
                     ELSE lastSet
       /\ lastCall' = IF out.ok THEN "other" ELSE "load_ply raised"
       /\ UNCHANGED <<file, ctor, saved, sh_call>>

---------------------------------------------------------------------------
\* Scene files written by other programs

\* A one-primitive file in the layout of the reference Gaussian-splatting
\* writer for SH degree fdeg (all float32, no colour triple); drop names a
\* group of properties left out.
ForeignFile(fdeg, drop) ==
    LET k1 == NCoef(fdeg) - 1
        l == <<Field("x", -1, "f4"), Field("y", -1, "f4"), Field("z", -1, "f4")>>
             \o Fields("f_dc", 3, "f4") \o Fields("f_rest", 3 * k1, "f4")
             \o (IF drop = "opacity" THEN <<>> ELSE <<Field("opacity", -1, "f4")>>)
             \o Fields("scale", 3, "f4") \o Fields("rot", 4, "f4")
        row == Row(InXyz(1, 5000), 0)
               \o [c \in 1 .. 3 |-> FeatureVal(5000, 0, 0, c - 1)]
               \o [j \in 1 .. 3 * k1 |->
                     FeatureVal(5000, 0, ((j - 1) % k1) + 1, (j - 1) \div k1)]
               \o (IF drop = "opacity" THEN <<>> ELSE Row(InOpacity(1, 5000), 0))
               \o Row(InScaling(1, 5000), 0)
               \o Row(InRotation(1, 5000), 0)
    IN [exists |-> TRUE,
        names |-> [j \in 1 .. Len(l) |-> l[j].name],
        types |-> [j \in 1 .. Len(l) |-> l[j].ty],
        ops |-> [j \in 1 .. Len(l) |-> <<>>],
        rows |-> <<row>>]

\* Another program writes the file at the path, where none was.
PutFile(fdeg, drop) ==
    /\ file = NoFile
    /\ file' = ForeignFile(fdeg, drop)
    /\ saved' = [by |-> "other", gen |-> 0]
    /\ lastCall' = "other"
    /\ UNCHANGED <<model, ctor, lastSet, sh_call>>

---------------------------------------------------------------------------
Next ==
    \/ \E deg \in Degrees : Construct(deg)
    \/ SetData(MaxN)
    \/ To
    \/ \E acc \in Accessors : Get(acc)
    \/ \E use_fp16 \in BOOLEAN, enable_gs_viewer \in BOOLEAN,
          color_code \in BOOLEAN, writer_f2 \in BOOLEAN :
          SavePly(use_fp16, enable_gs_viewer, color_code, writer_f2)
    \/ SavePlyVis
    \/ LoadPly
    \/ \E fdeg \in Degrees : PutFile(fdeg, "none")
    \/ PutFile(ctor.sh_degree, "opacity")

Spec == Init /\ [][Next]_vars
---------------------------------------------------------------------------
\* eval_sh

\* One summand of the result: constant c times the polynomial of the
\* direction (here its value, basis) times coefficient sh[..., i].
SHTerm(c, basis, sh, i) == [c |-> c, basis |-> basis, idx |-> i, sh |-> sh[i + 1]]

\* Lines 124-169: the summands of result for degree deg, in the order the
\* code adds them.
SHTerms(deg, sh, dirs) ==
    LET x == dirs[1]
        y == dirs[2]
        z == dirs[3]
        xx == x * x
        yy == y * y
        zz == z * z
        xy == x * y
        yz == y * z
        xz == x * z
        r0 == <<SHTerm("C0", 1, sh, 0)>>
        r1 == r0 \o <<SHTerm("-C1", y, sh, 1), SHTerm("C1", z, sh, 2),
                      SHTerm("-C1", x, sh, 3)>>
        r2 == r1 \o <<SHTerm("C2[0]", xy, sh, 4),
                      SHTerm("C2[1]", yz, sh, 5),
                      SHTerm("C2[2]", 2 * zz - xx - yy, sh, 6),
                      SHTerm("C2[3]", xz, sh, 7),
                      SHTerm("C2[4]", xx - yy, sh, 8)>>
        r3 == r2 \o <<SHTerm("C3[0]", y * (3 * xx - yy), sh, 9),
                      SHTerm("C3[1]", xy * z, sh, 10),
                      SHTerm("C3[2]", y * (4 * zz - xx - yy), sh, 11),
                      SHTerm("C3[3]", z * (2 * zz - 3 * xx - 3 * yy), sh, 12),
                      SHTerm("C3[4]", x * (4 * zz - xx - yy), sh, 13),
                      SHTerm("C3[5]", z * (xx - yy), sh, 14),
                      SHTerm("C3[6]", x * (xx - 3 * yy), sh, 15)>>
        r4 == r3 \o <<SHTerm("C4[0]", xy * (xx - yy), sh, 16),
                      SHTerm("C4[1]", yz * (3 * xx - yy), sh, 17),
                      SHTerm("C4[2]", xy * (7 * zz - 1), sh, 18),
                      SHTerm("C4[3]", yz * (7 * zz - 3), sh, 19),
                      SHTerm("C4[4]", zz * (35 * zz - 30) + 3, sh, 20),
                      SHTerm("C4[5]", xz * (7 * zz - 3), sh, 21),
                      SHTerm("C4[6]", (xx - yy) * (7 * zz - 1), sh, 22),
                      SHTerm("C4[7]", xz * (xx - 3 * yy), sh, 23),
                      SHTerm("C4[8]", xx * (xx - 3 * yy) - yy * (3 * xx - yy), sh, 24)>>
    IN IF deg > 3 THEN r4
       ELSE IF deg > 2 THEN r3
       ELSE IF deg > 1 THEN r2
       ELSE IF deg > 0 THEN r1
       ELSE r0

\* The largest degree <= deg (and <= 4) whose coefficients an array of n has.
RECURSIVE FittingDegree(_, _)
FittingDegree(deg, n) ==
    IF deg <= 0 THEN 0
    ELSE IF deg <= 4 /\ (deg + 1) * (deg + 1) <= n THEN deg
    ELSE FittingDegree(deg - 1, n)

\* Variant of eval_sh: the degree is lowered to what the coefficients allow.
eval_sh_lenient(deg, sh, dirs) ==
    IF Len(sh) < 1 THEN Failed
    ELSE [ok |-> TRUE, val |-> SHTerms(FittingDegree(deg, Len(sh)), sh, dirs)]

\* One point, one channel: sh is the last axis of the coefficient array.
eval_sh(deg, sh, dirs) ==
    IF ~(deg <= 4 /\ deg >= 0) THEN Failed
    ELSE IF ~(Len(sh) >= (deg + 1) * (deg + 1)) THEN Failed
    ELSE [ok |-> TRUE, val |-> SHTerms(deg, sh, dirs)]

\* Coefficients the longest array has beyond those of degree 4.
ExtraCoef == 1
\* Largest coordinate of the grid of directions.
MaxDirCoord == 1

SHDegrees == -1 .. 5
SHLengths == 0 .. NCoef(4) + ExtraCoef
\* The grid, and one direction at which no polynomial of the basis vanishes.
Dirs == [1 .. 3 -> 0 .. MaxDirCoord] \cup {<<1, 2, 3>>}
SHIn(n) == [i \in 1 .. n |-> 10 * i]

InitSH ==
    /\ Init
    /\ ctor = [sh_degree |-> 0, scaling_activation_type |-> "exp"]

EvalSh(deg, n, dirs) ==
    /\ sh_call = NoCall
    /\ sh_call' = [made |-> TRUE, deg |-> deg, sh |-> SHIn(n), dirs |-> dirs,
                   out |-> eval_sh(deg, SHIn(n), dirs),
                   changed |-> -1, before |-> eval_sh(deg, SHIn(n), dirs)]
    /\ UNCHANGED <<model, file, ctor, lastSet, saved, lastCall>>

\* The same call again with coefficient i of the array changed.
ReEvalSh(i) ==
    /\ sh_call # NoCall
    /\ sh_call.changed = -1
    /\ i < Len(sh_call.sh)
    /\ LET sh == [sh_call.sh EXCEPT ![i + 1] = @ + 1]
       IN sh_call' = [sh_call EXCEPT !.sh = sh, !.changed = i,
                                     !.out = eval_sh(sh_call.deg, sh, sh_call.dirs)]
    /\ UNCHANGED <<model, file, ctor, lastSet, saved, lastCall>>

ForgetSh ==
    /\ sh_call # NoCall
    /\ sh_call' = NoCall
    /\ UNCHANGED <<model, file, ctor, lastSet, saved, lastCall>>

NextSH ==
    \/ \E deg \in SHDegrees, n \in SHLengths, dirs \in Dirs : EvalSh(deg, n, dirs)
    \/ \E i \in 0 .. NCoef(4) + ExtraCoef - 1 : ReEvalSh(i)
    \/ ForgetSh

SpecSH == InitSH /\ [][NextSH]_vars

---------------------------------------------------------------------------
\* Properties

Fresh(mdl) == mdl = NewModel(mdl.sh_degree, mdl.scaling_activation_type)
Populated(mdl) == mdl.xyz # Empty0

\* color_dc as one vector per primitive: an (N, 1, 3) tensor read as (N, 3).
DcPerPrimitive(t) ==
    IF Ndim(t) = 3 /\ t.shape[2] = 1
    THEN [t EXCEPT !.shape = <<t.shape[1], t.shape[3]>>]
    ELSE t

SameGeometryAndColour(a, b) ==
    /\ a.xyz = b.xyz
    /\ DcPerPrimitive(a.features_dc) = DcPerPrimitive(b.features_dc)
    /\ a.features_rest = b.features_rest
    /\ a.opacity = b.opacity
    /\ a.rotation = b.rotation

\* C1: whenever load_ply is called on a fresh model of SH degree d in 0..3 and
\* the file at the path was written by save_ply (any arguments, the default
\* viewer-compatible call included) from a populated model of the same
\* degree, the load succeeds and position, color_dc, color_rest, opacity and
\* rotation of the loaded model equal those of the saved model.
C1_RoundTripSameDegree ==
    [][(/\ LoadPly
        /\ Fresh(model)
        /\ model.sh_degree <= 3
        /\ saved.by = "save_ply"
        /\ saved.model.sh_degree = model.sh_degree)
       => (/\ lastCall' # "load_ply raised"
           /\ SameGeometryAndColour(model', saved.model))]_vars

\* The default call (float32, viewer-compatible, no colour coding) on a model
\* of degree 1 or 2 populated by load_ply wrote the file, and a fresh model of
\* the same degree has just failed to load it.
C1_DefaultSaveNotLoadable ==
    /\ lastCall = "load_ply raised"
    /\ Fresh(model)
    /\ model.sh_degree \in 1 .. 2
    /\ saved.by = "save_ply"
    /\ saved.model.sh_degree = model.sh_degree
    /\ saved.enable_gs_viewer /\ ~saved.use_fp16 /\ ~saved.color_code

\* C2: after set_data(xyz, features, ...) on a model of SH degree > 0, with
\* features of K = (deg+1)^2 coefficients, color_dc holds coefficient 0 alone,
\* color_rest holds coefficients 1..K-1, and get_features has K coefficients
\* and equals features.
C2_SetDataSplitsFeatures ==
    (lastSet.by = "set_data" /\ model.sh_degree > 0) =>
        LET features == InFeatures(model.sh_degree, model.xyz.shape[1], 0)
            K == NCoef(model.sh_degree) IN
        /\ model.features_dc.shape = <<features.shape[1], 1, 3>>
        /\ \A p \in 0 .. features.shape[1] - 1, c \in 0 .. 2 :
              At3(model.features_dc, p, 0, c) = At3(features, p, 0, c)
        /\ model.features_rest = SliceRest(features)
        /\ get_features(model).ok
        /\ get_features(model).val.shape[2] = K
        /\ get_features(model).val = features

\* set_data has just filled a model of SH degree 1 and get_features returns
\* 2K - 1 = 7 coefficients per primitive.
C2_DcKeepsAllCoefficients ==
    /\ lastSet.by = "set_data"
    /\ model.sh_degree = 1
    /\ model.features_dc.shape[2] = NCoef(1)
    /\ get_features(model).ok
    /\ get_features(model).val.shape[2] = 2 * NCoef(1) - 1

\* A tensor after numpy's cast into fields of type ty.
CastT(ty, t) ==
    [shape |-> t.shape,
     flat |-> [i \in 1 .. Len(t.flat) |-> CastNum(ty, t.ops, t.flat[i])],
     ops |-> CastOps(ty, t.ops)]

FloatType(use_fp16) == IF use_fp16 THEN "f2" ELSE "f4"

\* C3: under each activation policy, the scale columns of a file written by
\* save_ply are the logarithm of the decoded scale of the saved model (cast
\* to the file's float type), so that in a float32 file exp(stored scale) is
\* what get_scaling returns for that model.
C3_FileScaleIsLogOfDecoded ==
    saved.by = "save_ply" =>
        LET stored == FileTensor(file, "scale")
            decoded == get_scaling(saved.model).val
        IN /\ \A j \in Columns(file, "scale") : file.ops[j] = stored.ops
           /\ stored = CastT(FloatType(saved.use_fp16), ApplyT("log", decoded))
           /\ ~saved.use_fp16 => ApplyT("exp", stored) = decoded

\* save_ply has written a float32 file from a populated sigmoid-policy model.
C3_SigmoidModelSaved ==
    /\ saved.by = "save_ply"
    /\ ~saved.use_fp16
    /\ saved.model.scaling_activation_type = "sigmoid"
    /\ saved.model.scaling.shape[1] = MaxN
    /\ Len(FileTensor(file, "scale").flat) = 3 * MaxN

C5_ViewerRestPaddedTo45 ==
    (saved.by = "save_ply" /\ saved.enable_gs_viewer /\ saved.model.sh_degree <= 3) =>
        LET d == saved.model.sh_degree
            cols == SortBySuffix(file, Columns(file, "f_rest"))
        IN IF d = 0 THEN cols = <<>>
           ELSE LET own == TransposeFlatten(saved.model.features_rest)
                IN /\ Len(cols) = 45
                   /\ \A j \in 1 .. Len(cols) : file.names[cols[j]].i = j - 1
                   /\ own.shape[2] = 3 * (NCoef(d) - 1)
                   /\ \A p \in 1 .. Len(file.rows), j \in 1 .. Len(cols) :
                         file.rows[p][cols[j]] =
                            IF j <= own.shape[2]
                            THEN CastNum(file.types[cols[j]], own.ops, At2(own, p - 1, j - 1))
                            ELSE 0

\* save_ply has written a viewer-compatible file from a degree-1 model.
C5_ViewerFileOfDegree1 ==
    /\ saved.by = "save_ply"
    /\ saved.enable_gs_viewer
    /\ saved.model.sh_degree = 1
    /\ Cardinality(Columns(file, "f_rest")) > 3 * (NCoef(1) - 1)

\* C6: when a file written by save_ply with enable_gs_viewer from a model of
\* SH degree d in {1, 2} is loaded by a degree-3 model, the load succeeds and
\* for every primitive p, rest coefficient k and channel c the loaded
\* color_rest[p][k][c] is the saved color_rest[p][k][c] if k < (d+1)^2 - 1
\* and zero otherwise.
C6_PaddingKeepsPositions ==
    [][(/\ LoadPly
        /\ model.sh_degree = 3
        /\ saved.by = "save_ply"
        /\ saved.enable_gs_viewer
        /\ saved.model.sh_degree \in 1 .. 2)
       => /\ lastCall' # "load_ply raised"
          /\ LET orig == saved.model.features_rest
                 k1 == NCoef(saved.model.sh_degree) - 1
             IN \A p \in 0 .. orig.shape[1] - 1, k \in 0 .. NCoef(3) - 2, c \in 0 .. 2 :
                   At3(model'.features_rest, p, k, c) =
                      IF k < k1 THEN At3(orig, p, k, c) ELSE 0]_vars

\* A degree-3 model has loaded the viewer-compatible file of a degree-1
\* model: its color_rest[0][3][0] is the saved color_rest[0][0][1], and its
\* color_rest[0][0][1] is a padding zero.
C6_CoefficientMoved ==
    /\ lastSet.by = "load_ply"
    /\ lastSet.src.by = "save_ply"
    /\ lastSet.src.enable_gs_viewer
    /\ lastSet.src.model.sh_degree = 1
    /\ model.sh_degree = 3
    /\ At3(model.features_rest, 0, 3, 0) = At3(lastSet.src.model.features_rest, 0, 0, 1)
    /\ At3(lastSet.src.model.features_rest, 0, 0, 1) # 0
    /\ At3(model.features_rest, 0, 0, 1) = 0

RestCountFits(mdl, f) ==
    Cardinality(Columns(f, "f_rest")) = 3 * (mdl.sh_degree + 1) * (mdl.sh_degree + 1) - 3

\* C8: load_ply on a model of SH degree d > 0 raises whenever the number of
\* f_rest properties of the file is not 3*(d+1)^2 - 3, and a load_ply that
\* raises (on the count, on a missing property or on a missing file) leaves
\* position, color_dc, color_rest, scale, rotation and opacity as they were.
C8_FailedLoadChangesNothing ==
    [][LoadPly =>
          /\ (model.sh_degree > 0 /\ file.exists /\ ~RestCountFits(model, file))
                => lastCall' = "load_ply raised"
          /\ lastCall' = "load_ply raised" => RawFields(model') = RawFields(model)]_vars

\* A populated model of degree > 0 has just failed to load a file that has
\* every required property but another number of f_rest properties.
C8_CountMismatchRaised ==
    /\ lastCall = "load_ply raised"
    /\ lastSet.by = "set_data"
    /\ model.sh_degree > 0
    /\ model.xyz.shape[1] = MaxN
    /\ file.exists
    /\ HasField(file, "x", -1) /\ HasField(file, "opacity", -1)
    /\ ~RestCountFits(model, file)

\* The object the constructor arguments and the raw fields last set make up.
AsLastSet ==
    [sh_degree |-> ctor.sh_degree,
     scaling_activation_type |-> ctor.scaling_activation_type,
     xyz |-> lastSet.fields.xyz,
     features_dc |-> lastSet.fields.features_dc,
     features_rest |-> lastSet.fields.features_rest,
     scaling |-> lastSet.fields.scaling,
     rotation |-> lastSet.fields.rotation,
     opacity |-> lastSet.fields.opacity]

\* C9: in every state the raw fields are those the most recent set_data or
\* load_ply (or the constructor) set -- accessors, save_ply, save_ply_vis
\* and to change none, and the raw rotation stays unnormalized -- and each
\* accessor returns the decoding of exactly those fields: the position
\* itself, the policy's activation of the raw scale, the normalized
\* rotation, the sigmoid of the raw opacity.
C9_AccessorsProjectLatestRaw ==
    /\ RawFields(model) = lastSet.fields
    /\ \A acc \in Accessors : Access(model, acc) = Access(AsLastSet, acc)
    /\ Populated(model) =>
          /\ get_xyz(model).val = lastSet.fields.xyz
          /\ get_opacity(model).val = ApplyT("sigmoid", lastSet.fields.opacity)
          /\ get_rotation(model).val = ApplyT("normalize", lastSet.fields.rotation)
          /\ get_rotation(model).val # model.rotation
          /\ get_scaling(model).val.flat = lastSet.fields.scaling.flat
          /\ get_scaling(model).val.ops =
                lastSet.fields.scaling.ops \o
                   (CASE ctor.scaling_activation_type = "exp" -> <<"exp">>
                      [] ctor.scaling_activation_type = "softplus" ->
                            <<"softplus", "mul_scale_multi_act">>
                      [] OTHER -> <<"sigmoid", "affine_scale_min_max_act">>)

\* An accessor has just been read on a model that load_ply populated and
\* save_ply then saved.
C9_ReadAfterLoadAndSave ==
    /\ lastCall = "get"
    /\ lastSet.by = "load_ply"
    /\ saved.by = "save_ply"
    /\ RawFields(saved.model) = lastSet.fields
    /\ saved.gen = lastSet.gen + 1

\* C10: in every state all raw fields that are present have the same number
\* of primitives, color_rest is present exactly when the SH degree is > 0,
\* and SH degree and activation policy are the constructor's.
C10_ShapeAndIdentityKept ==
    /\ \A t \in {model.features_dc, model.scaling, model.rotation, model.opacity}
              \cup (IF model.features_rest # None THEN {model.features_rest} ELSE {}) :
          t.shape[1] = model.xyz.shape[1]
    /\ (model.features_rest # None) <=> (model.sh_degree > 0)
    /\ model.sh_degree = ctor.sh_degree
    /\ model.scaling_activation_type = ctor.scaling_activation_type

\* A degree-0 model that set_data filled with MaxN primitives has just
\* failed to load a file.
C10_SetThenFailedLoad ==
    /\ lastCall = "load_ply raised"
    /\ lastSet.by = "set_data"
    /\ model.sh_degree = 0
    /\ model.features_rest = None
    /\ model.xyz.shape[1] = MaxN

RowWidths(mdl, enable_gs_viewer, color_code) ==
    LET parts == SaveParts(mdl, enable_gs_viewer, color_code)
        w == [i \in 1 .. Len(parts) |-> parts[i].shape[2]]
    IN IF Len(parts) = 7 THEN w
       ELSE <<w[1], w[2], w[3], 0, w[4], w[5], w[6]>>

\* C12: for a model populated by set_data or load_ply and every use_fp16,
\* enable_gs_viewer and color_code for which the degree check passes,
\* construct_dtypes builds a schema, save_ply assembles rows, and the rows
\* have as many values as the schema has fields in each group (position 3,
\* RGB 3, color_dc, color_rest, opacity 1, scale, rotation); with use_fp16
\* neither side is padded: both have the model's own 3*((d+1)^2-1) SH-rest
\* values.
C12_RowsMatchSchema ==
    Populated(model) =>
        \A use_fp16 \in BOOLEAN, enable_gs_viewer \in BOOLEAN, color_code \in BOOLEAN :
            ~(~use_fp16 /\ enable_gs_viewer /\ model.sh_degree > 3) =>
                /\ construct_dtypes(model, use_fp16, enable_gs_viewer).ok
                /\ SavePartsOk(model, enable_gs_viewer, color_code)
                /\ LET nf == construct_dtypes(model, use_fp16, enable_gs_viewer).nf
                       w == RowWidths(model, enable_gs_viewer, color_code)
                   IN /\ w = nf
                      /\ w[1] = 3 /\ w[2] = 3 /\ w[5] = 1
                      /\ use_fp16 =>
                            /\ w[4] = 3 * (NCoef(model.sh_degree) - 1)
                            /\ nf[4] = 3 * (NCoef(model.sh_degree) - 1)

\* A degree-1 model populated by load_ply: for use_fp16 with enable_gs_viewer
\* the schema has 9 f_rest fields, the rows have 45 SH-rest values, and
\* save_ply fails whatever the writer accepts.
C12_HalfPrecisionRowsPadded ==
    /\ lastSet.by = "load_ply"
    /\ model.sh_degree = 1
    /\ construct_dtypes(model, TRUE, TRUE).ok
    /\ construct_dtypes(model, TRUE, TRUE).nf[4] = 9
    /\ SavePartsOk(model, TRUE, FALSE)
    /\ RowWidths(model, TRUE, FALSE)[4] = 45
    /\ ~save_ply(model, TRUE, TRUE, FALSE, TRUE).ok

PropertyName(g, i) == [g |-> g, i |-> i]

\* The file f is what the claim says save_ply_vis writes from mdl.
VisLayout(f, mdl) ==
    LET ndc == mdl.features_dc.shape[2]
        ns == mdl.scaling.shape[2]
        n == mdl.xyz.shape[1]
    IN /\ f.exists
       /\ f.names = <<PropertyName("x", -1), PropertyName("y", -1), PropertyName("z", -1)>>
                    \o [k \in 1 .. ndc |-> PropertyName("f_dc", k - 1)]
                    \o <<PropertyName("opacity", -1)>>
                    \o [k \in 1 .. ns |-> PropertyName("scale", k - 1)]
                    \o [k \in 1 .. 4 |-> PropertyName("rot", k - 1)]
       /\ \A j \in 1 .. Len(f.names) :
             f.names[j].g \notin {"red", "green", "blue", "f_rest"} /\ f.types[j] = "f4"
       /\ Len(f.rows) = n
       /\ \A p \in 0 .. n - 1 :
             /\ f.rows[p + 1][1] = At2(mdl.xyz, p, 0)
             /\ f.rows[p + 1][2] = 0 - At2(mdl.xyz, p, 2)
             /\ f.rows[p + 1][3] = At2(mdl.xyz, p, 1)
       /\ \A j \in 1 .. 3 : f.ops[j] = mdl.xyz.ops
       /\ FileTensor(f, "f_dc") = mdl.features_dc
       /\ FileTensor(f, "opacity") = mdl.opacity
       /\ FileTensor(f, "scale") = ApplyT("log", get_scaling(mdl).val)
       /\ ApplyT("exp", FileTensor(f, "scale")) = get_scaling(mdl).val

\* C13: a save_ply_vis call on a degree-0 model leaves the model as it was,
\* and the file it writes has, in this order, only x, y, z, f_dc_*, opacity,
\* scale_*, rot_0..3 (all float32; no RGB, no f_rest), with (x, -z, y) for a
\* position (x, y, z), the raw DC colour, the raw opacity and the logarithm
\* of the decoded scale under every policy; a call that raises writes
\* nothing.
C13_VisFileLayout ==
    [][(SavePlyVis /\ model.sh_degree = 0) =>
          /\ model' = model
          /\ IF save_ply_vis(model).ok THEN VisLayout(file', model)
             ELSE file' = file]_vars

\* save_ply_vis has written the file from a sigmoid-policy degree-0 model of
\* MaxN primitives.
C13_VisFileWritten ==
    /\ saved.by = "save_ply_vis"
    /\ saved.model = model
    /\ model.sh_degree = 0
    /\ model.scaling_activation_type = "sigmoid"
    /\ Len(file.rows) = MaxN
    /\ file.rows[1][2] = 0 - At2(model.xyz, 0, 2)
====
